---- MODULE Spec2Model ----
(***************************************************************************)
(* A model of LexicalAnalyzer (src/LexicalAnalyzer.py): the rule set kept  *)
(* by __init__ and update_patterns, the combined regular expression built  *)
(* from it, and the scan loop of tokenize_math_expression over             *)
(* re.finditer.                                                            *)
(*                                                                         *)
(* A pattern is its regular-expression text, so that len(pattern) is the   *)
(* length the code sorts by; what the text matches is given by Atoms, the  *)
(* compiled form of that text.  An expression is a sequence of one         *)
(* character strings; a lexeme is a sub-sequence of it.                    *)
(***************************************************************************)
EXTENDS Integers, Sequences, FiniteSets, TLC

VARIABLES
    patterns,           \* self.patterns: the dict, as its (name, pattern) items in insertion order
    token_specs,        \* self.token_specs: list of (name, pattern)
    combined_pattern,   \* self.combined_pattern: the alternation, as its named groups in order
    registered,         \* history: name -> the pattern last passed for it (None: never)
    overwritten,        \* history: some call registered a name that was already a key
    last_call,          \* history: the last call made on the analyzer
    pc,                 \* where tokenize_math_expression is: "idle", "loop", "done"
    expression,         \* its argument
    tokens,             \* its local list of {'lexeme', 'token_type'} records
    last_match_end,     \* its cursor
    it_pos,             \* re.finditer's scanner: where the next search starts
    it_must_advance,    \* re.finditer's scanner: the last match was empty
    matches             \* history: the matches finditer has yielded, [start, end, group]

vars == <<patterns, token_specs, combined_pattern, registered, overwritten, last_call,
          pc, expression, tokens, last_match_end, it_pos,
          it_must_advance, matches>>

ruleVars == <<patterns, token_specs, combined_pattern, registered, overwritten, last_call>>
scanVars == <<pc, expression, tokens, last_match_end, it_pos,
              it_must_advance, matches>>

(***************************************************************************)
(* Bounds of the model.                                                    *)
(***************************************************************************)
MaxRules == 2       \* rules registered with one analyzer
MaxLen == 3         \* length of a scanned expression

None == "None"

Names == {"NUMBER", "FLOAT", "COMMENT", "WHITESPACE", "ID"}
ScanNames == {"NUMBER", "FLOAT", "WHITESPACE"}

\* The pattern texts rules are registered with: \d+  \d+\.\d+  \s+  \d*
Patterns == {"\\d+", "\\d+\\.\\d+", "\\s+", "\\d*"}

(***************************************************************************)
(* Python list and dict operations used by update_patterns.                *)
(***************************************************************************)
Range(s) == {s[i] : i \in 1..Len(s)}

KeyOf(item) == item[1]
ValueOf(item) == item[2]

Keys(d) == {KeyOf(d[i]) : i \in 1..Len(d)}

\* d[name], for a key of d
Lookup(d, name) == ValueOf(d[CHOOSE i \in 1..Len(d) : KeyOf(d[i]) = name])

\* list.remove(item): drops the first element equal to item
ListRemove(items, item) ==
    LET i == CHOOSE k \in 1..Len(items) :
                 items[k] = item /\ \A j \in 1..(k - 1) : items[j] # item
    IN  SubSeq(items, 1, i - 1) \o SubSeq(items, i + 1, Len(items))

\* list.insert(index, item), index counted from 0
ListInsert(items, index, item) ==
    SubSeq(items, 1, index) \o <<item>> \o SubSeq(items, index + 1, Len(items))

\* next(i for i, (name, _) in enumerate(items) if name == wanted), counted from 0
IndexOfName(items, wanted) ==
    (CHOOSE k \in 1..Len(items) :
         KeyOf(items[k]) = wanted /\ \A j \in 1..(k - 1) : KeyOf(items[j]) # wanted) - 1

\* d[name] = value: an existing key keeps its place, a new key goes last
DictSetAppendAlways(d, name, value) == Append(d, <<name, value>>)
DictSet(d, name, value) ==
    IF name \in Keys(d)
    THEN [i \in 1..Len(d) |-> IF KeyOf(d[i]) = name THEN <<name, value>> ELSE d[i]]
    ELSE Append(d, <<name, value>>)

\* dict.update(kwargs)
RECURSIVE DictUpdate(_, _)
DictUpdate(d, kwargs) ==
    IF kwargs = <<>> THEN d
    ELSE DictUpdate(DictSet(d, KeyOf(Head(kwargs)), ValueOf(Head(kwargs))), Tail(kwargs))

\* items.sort(key=lambda x: len(x[1]), reverse=True): stable, longest text first
RECURSIVE InsertByLength(_, _)
InsertByLength(sorted, item) ==
    IF sorted = <<>> THEN <<item>>
    ELSE IF Len(ValueOf(Head(sorted))) >= Len(ValueOf(item))
         THEN <<Head(sorted)>> \o InsertByLength(Tail(sorted), item)
         ELSE <<item>> \o sorted

RECURSIVE SortFrom(_, _)
SortFrom(sorted, rest) ==
    IF rest = <<>> THEN sorted
    ELSE SortFrom(InsertByLength(sorted, Head(rest)), Tail(rest))

NoSort(items) == items
SortByLengthDesc(items) == SortFrom(<<>>, items)

(***************************************************************************)
(* update_patterns, lines 62-93: the order of the rule list.               *)
(***************************************************************************)
\* lines 67-72
MoveFloat(d, items) ==
    IF "FLOAT" \in Keys(d) /\ "NUMBER" \in Keys(d)
    THEN LET float_item == <<"FLOAT", Lookup(d, "FLOAT")>>
             removed == ListRemove(items, float_item)
         IN  ListInsert(removed, IndexOfName(removed, "NUMBER"), float_item)
    ELSE items

\* lines 75-78
MoveComment(d, items) ==
    IF "COMMENT" \in Keys(d)
    THEN LET comment_item == <<"COMMENT", Lookup(d, "COMMENT")>>
         IN  ListInsert(ListRemove(items, comment_item), 0, comment_item)
    ELSE items

\* lines 81-85
MoveWhitespace(d, items) ==
    IF "WHITESPACE" \in Keys(d)
    THEN LET whitespace_item == <<"WHITESPACE", Lookup(d, "WHITESPACE")>>
         IN  IF whitespace_item \in Range(items)
             THEN Append(ListRemove(items, whitespace_item), whitespace_item)
             ELSE items
    ELSE items

\* lines 63-89: pattern_items after the moves and the sort
OrderedItems(d) ==
    SortByLengthDesc(MoveWhitespace(d, MoveComment(d, MoveFloat(d, d))))

\* build_combined_pattern: '|'.join('(?P<%s>%s)' % (name, pattern) ...), or (?!)
ReversedGroups(specs) ==
    [i \in 1..Len(specs) |->
        [group |-> KeyOf(specs[Len(specs) + 1 - i]), alt |-> ValueOf(specs[Len(specs) + 1 - i])]]
build_combined_pattern(specs) ==
    [i \in 1..Len(specs) |-> [group |-> KeyOf(specs[i]), alt |-> ValueOf(specs[i])]]

\* The fields update_patterns leaves, from the dict it leaves
Compiled(d) ==
    IF d = <<>>
    THEN [token_specs |-> <<>>, combined_pattern |-> <<>>]
    ELSE LET pattern_items == OrderedItems(d)
         IN  [token_specs |-> pattern_items,
              combined_pattern |-> build_combined_pattern(pattern_items)]

(***************************************************************************)
(* Keyword arguments: sequences of (name, pattern) with distinct names.    *)
(***************************************************************************)
KwargsOver(names, n) ==
    {kw \in UNION {[1..k -> names \X Patterns] : k \in 0..n} :
        \A i, j \in 1..Len(kw) : KeyOf(kw[i]) = KeyOf(kw[j]) => i = j}

Registered(old, kwargs) ==
    [n \in Names |-> IF n \in Keys(kwargs) THEN Lookup(kwargs, n) ELSE old[n]]

ScanIdle ==
    /\ pc = "idle"
    /\ expression = <<>>
    /\ tokens = <<>>
    /\ last_match_end = 0
    /\ it_pos = 0
    /\ it_must_advance = FALSE
    /\ matches = <<>>

\* get_token_patterns(**kwargs): the keyword arguments as a dict
get_token_patterns(kwargs) == kwargs

\* __init__, lines 23-28: update_patterns() when there are patterns
InitialFieldsUncompiled(kwargs) ==
    [token_specs |-> <<>>, combined_pattern |-> <<>>]
InitialFields(kwargs) ==
    IF kwargs # <<>>
    THEN Compiled(kwargs)
    ELSE [token_specs |-> <<>>, combined_pattern |-> <<>>]

\* __init__(**token_patterns)
Construct(kwargs) ==
    /\ patterns = get_token_patterns(kwargs)
    /\ \E c \in {InitialFields(kwargs)} :
           /\ token_specs = c.token_specs
           /\ combined_pattern = c.combined_pattern
    /\ registered = Registered([n \in Names |-> None], kwargs)
    /\ overwritten = FALSE
    /\ last_call = "init"
    /\ ScanIdle

Init == \E kwargs \in KwargsOver(Names, MaxRules) : Construct(kwargs)

\* update_patterns(**kwargs)
UpdatePatterns(kwargs) ==
    /\ pc # "loop"
    /\ \E d \in {DictUpdate(patterns, get_token_patterns(kwargs))} :
           /\ Len(d) <= MaxRules
           /\ patterns' = d
           /\ \E c \in {Compiled(d)} :
                  /\ token_specs' = c.token_specs
                  /\ combined_pattern' = c.combined_pattern
    /\ registered' = Registered(registered, kwargs)
    /\ overwritten' = (overwritten \/ Keys(kwargs) \cap Keys(patterns) # {})
    /\ last_call' = IF kwargs = <<>> THEN "recompile" ELSE "update"
    /\ UNCHANGED scanVars

Recompile == UpdatePatterns(<<>>)

Register == \E name \in Names, pattern \in Patterns : UpdatePatterns(<<<<name, pattern>>>>)

Next == Recompile \/ Register

\* The analyzer as its rule set is built and rebuilt
Spec == Init /\ [][Next]_vars

(***************************************************************************)
(* The compiled form of a pattern text, and Python's re matching of it.    *)
(* Positions are Python's: position p lies before character p + 1.         *)
(***************************************************************************)
Digits == {"0", "1", "2", "3", "4", "5", "6", "7", "8", "9"}
Spaces == {" ", "\t", "\n", "\r", "\f"}

InClass(c, cls) ==
    CASE cls = "digit" -> c \in Digits
      [] cls = "space" -> c \in Spaces
      [] cls = "dot"   -> c = "."

\* re.compile: the items of the pattern, each a character class repeated
\* from min times to once (many = FALSE) or without limit (many = TRUE), greedy
Atoms(pattern) ==
    CASE pattern = "\\d+" ->
             <<[cls |-> "digit", min |-> 1, many |-> TRUE]>>
      [] pattern = "\\d+\\.\\d+" ->
             <<[cls |-> "digit", min |-> 1, many |-> TRUE],
               [cls |-> "dot", min |-> 1, many |-> FALSE],
               [cls |-> "digit", min |-> 1, many |-> TRUE]>>
      [] pattern = "\\s+" ->
             <<[cls |-> "space", min |-> 1, many |-> TRUE]>>
      [] pattern = "\\d*" ->
             <<[cls |-> "digit", min |-> 0, many |-> TRUE]>>

NoEnd == -1

\* How many characters from position pos on are in the class, at most limit
RECURSIVE RunLength(_, _, _, _)
RunLength(cls, s, pos, limit) ==
    IF limit > 0 /\ pos < Len(s) /\ InClass(s[pos + 1], cls)
    THEN 1 + RunLength(cls, s, pos + 1, limit - 1)
    ELSE 0

\* The end of the first match of items i.. at pos that the engine finds, trying
\* the longest repetition first and backtracking; an empty match at the start
\* of a search that must advance is refused (SRE_OP_SUCCESS under must_advance)
RECURSIVE MatchAtoms(_, _, _, _, _, _)
RECURSIVE TryCounts(_, _, _, _, _, _, _)
MatchAtoms(atoms, i, s, pos, start, must_advance) ==
    IF i > Len(atoms)
    THEN IF must_advance /\ pos = start THEN NoEnd ELSE pos
    ELSE LET a == atoms[i]
             run == RunLength(a.cls, s, pos, IF a.many THEN Len(s) ELSE 1)
         IN  TryCounts(atoms, i, s, pos, start, must_advance, run)

TryCounts(atoms, i, s, pos, start, must_advance, n) ==
    IF n < atoms[i].min THEN NoEnd
    ELSE LET end == MatchAtoms(atoms, i + 1, s, pos + n, start, must_advance)
         IN  IF end # NoEnd THEN end
             ELSE TryCounts(atoms, i, s, pos, start, must_advance, n - 1)

NoMatch == [start |-> NoEnd, end |-> NoEnd, group |-> None]

\* pattern.match at pos of the alternation's groups k..: the first that matches
RECURSIVE MatchGroups(_, _, _, _, _)
MatchGroups(combined, k, s, pos, must_advance) ==
    IF k > Len(combined) THEN NoMatch
    ELSE LET end == MatchAtoms(Atoms(combined[k].alt), 1, s, pos, pos, must_advance)
         IN  IF end # NoEnd
             THEN [start |-> pos, end |-> end, group |-> combined[k].group]
             ELSE MatchGroups(combined, k + 1, s, pos, must_advance)

\* The scanner's search: the leftmost position from pos on with a match;
\* must_advance holds for the attempt at pos only
RECURSIVE SearchFrom(_, _, _, _)
SearchIgnoringMustAdvance(combined, s, pos, must_advance) ==
    LET m == MatchGroups(combined, 1, s, pos, FALSE)
    IN  IF m # NoMatch THEN m
        ELSE IF pos < Len(s) THEN SearchFrom(combined, s, pos + 1, FALSE)
        ELSE NoMatch
SearchFrom(combined, s, pos, must_advance) ==
    LET m == MatchGroups(combined, 1, s, pos, must_advance)
    IN  IF m # NoMatch THEN m
        ELSE IF pos < Len(s) THEN SearchFrom(combined, s, pos + 1, FALSE)
        ELSE NoMatch

\* s[start:end]
Slice(s, start, end) == SubSeq(s, start + 1, end)

(***************************************************************************)
(* tokenize_math_expression and its helpers.                               *)
(***************************************************************************)
Unrecognized(char) == [lexeme |-> <<char>>, token_type |-> "UNRECOGNIZED"]

\* process_unrecognized_tokens(tokens, expression, start, end)
MergeUnrecognized(toks, s, start, end) ==
    Append(toks, [lexeme |-> Slice(s, start, end), token_type |-> "UNRECOGNIZED"])
SkipUnrecognized(toks, s, start, end) == toks
process_unrecognized_tokens(toks, s, start, end) ==
    toks \o [i \in 1..(end - start) |-> Unrecognized(s[start + i])]

\* identify_token_type(match, tokens): match.group(token_type) is not None for
\* the group that matched only
RECURSIVE IdentifyFrom(_, _, _, _, _)
IdentifyFrom(specs, k, match, toks, s) ==
    IF k > Len(specs) THEN toks
    ELSE LET token_type == KeyOf(specs[k])
         IN  IF match.group = token_type
             THEN IF token_type # "WHITESPACE"
                  THEN Append(toks, [lexeme |-> Slice(s, match.start, match.end),
                                     token_type |-> token_type])
                  ELSE toks
             ELSE IdentifyFrom(specs, k + 1, match, toks, s)

KeepWhitespace(specs, match, toks, s) ==
    Append(toks, [lexeme |-> Slice(s, match.start, match.end), token_type |-> match.group])
identify_token_type(specs, match, toks, s) == IdentifyFrom(specs, 1, match, toks, s)

\* lines 164-167
NoTokens(s) == <<>>
AllUnrecognized(s) == [i \in 1..Len(s) |-> Unrecognized(s[i])]

Alphabet == {"1", ".", " "}
Example314 == <<"3", ".", "1", "4">>
Example1234 == <<"1", "2", " ", "3", "4">>
Example1at2 == <<"1", "@", "@", "2">>
Expressions ==
    UNION {[1..n -> Alphabet] : n \in 0..MaxLen} \cup {Example314, Example1234, Example1at2}

\* tokenize_math_expression(expression), lines 161-172: up to the loop
Tokenize(s) ==
    /\ pc = "idle"
    /\ expression' = s
    /\ matches' = <<>>
    /\ last_match_end' = 0
    /\ it_pos' = 0
    /\ it_must_advance' = FALSE
    /\ IF token_specs = <<>>
       THEN tokens' = AllUnrecognized(s) /\ pc' = "done"
       ELSE tokens' = <<>> /\ pc' = "loop"
    /\ UNCHANGED ruleVars

\* what the iterator does after yielding a match
NextSearchAtStart(m) == m.start
NextSearchAt(m) == m.end

\* lines 172-182: one turn of the loop, for the next match finditer yields
ScanMatch ==
    /\ pc = "loop"
    /\ \E m \in {SearchFrom(combined_pattern, expression, it_pos, it_must_advance)} :
           /\ m # NoMatch
           /\ tokens' = identify_token_type(token_specs, m,
                            IF m.start > last_match_end
                            THEN process_unrecognized_tokens(tokens, expression,
                                                             last_match_end, m.start)
                            ELSE tokens,
                            expression)
           /\ last_match_end' = m.end
           /\ it_pos' = NextSearchAt(m)
           /\ it_must_advance' = (m.end = m.start)
           /\ matches' = Append(matches, m)
    /\ UNCHANGED <<pc, expression>>
    /\ UNCHANGED ruleVars

\* lines 184-188: finditer is exhausted
ScanFinish ==
    /\ pc = "loop"
    /\ SearchFrom(combined_pattern, expression, it_pos, it_must_advance) = NoMatch
    /\ tokens' = IF last_match_end < Len(expression)
                 THEN process_unrecognized_tokens(tokens, expression,
                                                  last_match_end, Len(expression))
                 ELSE tokens
    /\ pc' = "done"
    /\ UNCHANGED <<expression, last_match_end, it_pos, it_must_advance, matches>>
    /\ UNCHANGED ruleVars

\* return tokens: the call is over and its locals are gone
Return ==
    /\ pc = "done"
    /\ pc' = "idle"
    /\ expression' = <<>>
    /\ tokens' = <<>>
    /\ last_match_end' = 0
    /\ it_pos' = 0
    /\ it_must_advance' = FALSE
    /\ matches' = <<>>
    /\ UNCHANGED ruleVars

Call == \E s \in Expressions : Tokenize(s)

ScanInit == \E kwargs \in KwargsOver(ScanNames, MaxRules) : Construct(kwargs)

ScanNext == Call \/ ScanMatch \/ ScanFinish \/ Return

\* A constructed analyzer scanning expressions
ScanSpec == ScanInit /\ [][ScanNext]_vars

(***************************************************************************)
(* Properties of the rule set (checked under Spec).                        *)
(***************************************************************************)
NameAt(specs, i) == KeyOf(specs[i])
TextLenAt(specs, i) == Len(ValueOf(specs[i]))

\* Where a name stands among the dict's keys, counted from 1
InsertionIndex(name) == CHOOSE i \in 1..Len(patterns) : KeyOf(patterns[i]) = name

\* The place the name-specific moves give a rule among rules of equal length:
\* COMMENT first, WHITESPACE last, FLOAT right before NUMBER, the others as inserted
Rank(name) ==
    CASE name = "COMMENT" -> 0
      [] name = "WHITESPACE" -> 2 * Len(patterns) + 2
      [] name = "FLOAT" /\ "NUMBER" \in Keys(patterns) -> 2 * InsertionIndex("NUMBER") - 1
      [] OTHER -> 2 * InsertionIndex(name)

\* C3, as claimed: with every priority 0 the Ordered Rule List is the registered
\* rules in insertion order, whatever their names and pattern lengths.
C3_InsertionOrder == token_specs = patterns

\* C3, amended: token_specs holds exactly the registered rules, sorted by
\* descending length of the pattern text; rules of equal length stand in
\* insertion order adjusted by name (COMMENT first, WHITESPACE last, FLOAT
\* right before NUMBER when both are registered).  There are no priorities.
C3_LengthThenAdjustedInsertionOrder ==
    /\ Len(token_specs) = Len(patterns)
    /\ Range(token_specs) = Range(patterns)
    /\ \A i, j \in 1..Len(token_specs) :
          i < j =>
             \/ TextLenAt(token_specs, i) > TextLenAt(token_specs, j)
             \/ /\ TextLenAt(token_specs, i) = TextLenAt(token_specs, j)
                /\ Rank(NameAt(token_specs, i)) < Rank(NameAt(token_specs, j))

\* C3's case: a registration after which the list is not in insertion order
C3_Witness ==
    /\ last_call = "update"
    /\ Len(token_specs) = 2
    /\ token_specs # patterns
    /\ TextLenAt(token_specs, 1) > TextLenAt(token_specs, 2)

\* C7: token_specs holds one entry per registered name, no name twice, each
\* with the pattern most recently registered for the name.
C7_OneEntryPerName ==
    /\ \A i, j \in 1..Len(token_specs) :
          NameAt(token_specs, i) = NameAt(token_specs, j) => i = j
    /\ Keys(token_specs) = {n \in Names : registered[n] # None}
    /\ \A i \in 1..Len(token_specs) :
          ValueOf(token_specs[i]) = registered[NameAt(token_specs, i)]

\* C7's case: a name was registered again, with other rules present
C7_Witness ==
    /\ overwritten
    /\ last_call = "update"
    /\ Len(token_specs) = 2

\* C8: update_patterns() with no arguments leaves the rule list and the
\* combined pattern as they were (so every scan gives what it gave before).
C8_RecompileIdempotent ==
    [][Recompile => (token_specs' = token_specs /\ combined_pattern' = combined_pattern)]_vars

\* C8's case: a recompilation of a rule set that has rules
C8_Witness ==
    /\ last_call = "recompile"
    /\ Len(token_specs) = 2

\* C9, as claimed: with FLOAT and NUMBER both registered, FLOAT stands before
\* NUMBER in token_specs.
C9_FloatBeforeNumber ==
    ("FLOAT" \in Keys(patterns) /\ "NUMBER" \in Keys(patterns)) =>
        IndexOfName(token_specs, "FLOAT") < IndexOfName(token_specs, "NUMBER")

(***************************************************************************)
(* Properties of the scan (checked under ScanSpec).                        *)
(***************************************************************************)
RECURSIVE ConcatLexemes(_)
ConcatLexemes(toks) ==
    IF toks = <<>> THEN <<>> ELSE Head(toks).lexeme \o ConcatLexemes(Tail(toks))

IsUnrecognized(t) == t.token_type = "UNRECOGNIZED"
IsRecognized(t) == t.token_type # "UNRECOGNIZED"
IsWhitespaceMatch(m) == m.group = "WHITESPACE"
IsOtherMatch(m) == m.group # "WHITESPACE"

\* Character i of the expression lies inside a match (a WHITESPACE match)
InMatch(i) == \E k \in 1..Len(matches) : matches[k].start < i /\ i <= matches[k].end
InWhitespaceMatch(i) ==
    \E k \in 1..Len(matches) :
        IsWhitespaceMatch(matches[k]) /\ matches[k].start < i /\ i <= matches[k].end
OutsideMatches(i) == ~InMatch(i)
OutsideWhitespace(i) == ~InWhitespaceMatch(i)

Indices == [i \in 1..Len(expression) |-> i]
CharsAt(idx) == [k \in 1..Len(idx) |-> expression[idx[k]]]

RecordOf(m) == [lexeme |-> Slice(expression, m.start, m.end), token_type |-> m.group]

\* The language of a pattern, by the meaning of its items: w is in it
RECURSIVE InLanguage(_, _, _)
InLanguage(atoms, i, w) ==
    IF i > Len(atoms) THEN w = <<>>
    ELSE \E n \in atoms[i].min..(IF atoms[i].many THEN Len(w) ELSE 1) :
            /\ n <= Len(w)
            /\ \A k \in 1..n : InClass(w[k], atoms[i].cls)
            /\ InLanguage(atoms, i + 1, SubSeq(w, n + 1, Len(w)))

\* The pattern matches some stretch of the expression that starts at start
\* (one of at least least characters)
MatchesAt(pattern, start, least) ==
    \E end \in (start + least)..Len(expression) :
        InLanguage(Atoms(pattern), 1, Slice(expression, start, end))

\* The rules of token_specs whose pattern matches at start, by their places
MatchingRules(start, least) ==
    {i \in 1..Len(token_specs) : MatchesAt(ValueOf(token_specs[i]), start, least)}

Earliest(places) == CHOOSE i \in places : \A j \in places : i <= j

\* Match k was looked for right where an empty match had just been found
AfterEmptyMatchThere(k) ==
    /\ k > 1
    /\ matches[k - 1].start = matches[k - 1].end
    /\ matches[k - 1].end = matches[k].start

RegisteredAs(name, pattern) == name \in Keys(patterns) /\ Lookup(patterns, name) = pattern

\* C1, as claimed: the lexemes of the returned records, concatenated, are the
\* input (the code has one way to run: it takes no include_whitespace flag).
C1_TotalCoverage ==
    pc = "done" => ConcatLexemes(tokens) = expression

\* C1, amended: the lexemes of the returned records, concatenated, are the
\* input without the characters matched by the rule named WHITESPACE; they
\* are the whole input when no WHITESPACE rule matched.
C1_CoverageButWhitespace ==
    pc = "done" =>
        ConcatLexemes(tokens) = CharsAt(SelectSeq(Indices, OutsideWhitespace))

\* C1's case: a finished scan that dropped whitespace between other tokens
C1_Witness ==
    /\ pc = "done"
    /\ \E k \in 1..Len(matches) :
          IsWhitespaceMatch(matches[k]) /\ matches[k].end > matches[k].start
    /\ Len(tokens) >= 2
    /\ ConcatLexemes(tokens) # expression

\* C2, as claimed: every match has the type of the earliest rule of token_specs
\* whose pattern matches at the match's start.
C2_EarliestMatchingRule ==
    \A k \in 1..Len(matches) :
        matches[k].group =
            NameAt(token_specs, Earliest(MatchingRules(matches[k].start, 0)))

\* C2, amended: every match has the type of the earliest rule of token_specs
\* whose pattern matches at the match's start; right after an empty match at
\* that same position only non-empty matches count.  With NUMBER = \d+ and
\* FLOAT = \d+\.\d+ registered, "3.14" scans to the one token FLOAT "3.14".
C2_EarliestAdmissibleRule ==
    /\ \A k \in 1..Len(matches) :
          matches[k].group =
              NameAt(token_specs,
                     Earliest(MatchingRules(matches[k].start,
                                            IF AfterEmptyMatchThere(k) THEN 1 ELSE 0)))
    /\ ( /\ pc = "done"
         /\ expression = Example314
         /\ RegisteredAs("NUMBER", "\\d+")
         /\ RegisteredAs("FLOAT", "\\d+\\.\\d+") )
       => tokens = <<[lexeme |-> Example314, token_type |-> "FLOAT"]>>

\* C2's case: "3.14" scanned with both rules registered
C2_Witness ==
    /\ pc = "done"
    /\ expression = Example314
    /\ RegisteredAs("NUMBER", "\\d+")
    /\ RegisteredAs("FLOAT", "\\d+\\.\\d+")
    /\ Len(matches) = 1

\* C4, as claimed: a WHITESPACE match gives a record if and only if
\* include_whitespace is true, whichever value the caller means.
C4_WhitespaceFilter ==
    \A include_whitespace \in BOOLEAN :
        pc = "done" =>
            \A k \in 1..Len(matches) :
                IsWhitespaceMatch(matches[k]) =>
                    ((RecordOf(matches[k]) \in Range(tokens)) <=> include_whitespace)

\* C4, amended: a WHITESPACE match moves the cursor past the match and never
\* gives a record (there is no include_whitespace flag); every other match
\* gives exactly one record.  With NUMBER = \d+ and WHITESPACE = \s+,
\* "12 34" scans to NUMBER "12", NUMBER "34".
C4_WhitespaceConsumedNeverEmitted ==
    /\ (pc # "idle" /\ matches # <<>>) => last_match_end = matches[Len(matches)].end
    /\ \A t \in 1..Len(tokens) : tokens[t].token_type # "WHITESPACE"
    /\ pc # "idle" =>
          SelectSeq(tokens, IsRecognized) =
              [k \in 1..Len(SelectSeq(matches, IsOtherMatch)) |->
                  RecordOf(SelectSeq(matches, IsOtherMatch)[k])]
    /\ ( /\ pc = "done"
         /\ expression = Example1234
         /\ patterns \in {<<<<"NUMBER", "\\d+">>, <<"WHITESPACE", "\\s+">>>>,
                          <<<<"WHITESPACE", "\\s+">>, <<"NUMBER", "\\d+">>>>} )
       => tokens = <<[lexeme |-> <<"1", "2">>, token_type |-> "NUMBER"],
                     [lexeme |-> <<"3", "4">>, token_type |-> "NUMBER"]>>

\* C4's case: "12 34" scanned with the two rules
C4_Witness ==
    /\ pc = "done"
    /\ expression = Example1234
    /\ patterns = <<<<"NUMBER", "\\d+">>, <<"WHITESPACE", "\\s+">>>>
    /\ Len(matches) = 3
    /\ Len(tokens) = 2

\* C5: every UNRECOGNIZED record holds one character; when the scan is done
\* the UNRECOGNIZED records are the characters that lie in no match, one
\* each, in input order, each standing after just the records of the matches
\* that end before it.
C5_GapGranularity ==
    /\ \A t \in 1..Len(tokens) :
          IsUnrecognized(tokens[t]) => Len(tokens[t].lexeme) = 1
    /\ pc = "done" =>
          LET outside == SelectSeq(Indices, OutsideMatches)
          IN  /\ Len(SelectSeq(tokens, IsUnrecognized)) = Len(outside)
              /\ \A t \in 1..Len(tokens) :
                    IsUnrecognized(tokens[t]) =>
                        LET nth == Len(SelectSeq(SubSeq(tokens, 1, t), IsUnrecognized))
                            i == outside[nth]
                        IN  /\ tokens[t].lexeme = <<expression[i]>>
                            /\ Len(SelectSeq(SubSeq(tokens, 1, t), IsRecognized)) =
                                  Cardinality({k \in 1..Len(matches) :
                                                  /\ IsOtherMatch(matches[k])
                                                  /\ matches[k].end < i})

\* C5's case: "1@@2" scanned with NUMBER = \d+ alone
C5_Witness ==
    /\ pc = "done"
    /\ expression = Example1at2
    /\ patterns = <<<<"NUMBER", "\\d+">>>>
    /\ Len(matches) = 2
    /\ Len(tokens) = 4

\* C6: with no rule registered the scan of an input of n characters returns n
\* records, the i-th being (i-th character, UNRECOGNIZED).
C6_EmptyConfiguration ==
    patterns = <<>> =>
        /\ token_specs = <<>>
        /\ pc = "done" =>
              /\ Len(tokens) = Len(expression)
              /\ \A i \in 1..Len(expression) :
                    tokens[i] = [lexeme |-> <<expression[i]>>, token_type |-> "UNRECOGNIZED"]

\* C6's case: an input of several characters scanned with no rule
C6_Witness ==
    /\ patterns = <<>>
    /\ pc = "done"
    /\ Len(expression) >= 2

\* What is left for the iterator to do: falls with every match it yields
Progress == 2 * (Len(expression) - it_pos) + (IF it_must_advance THEN 0 ELSE 1)

\* C10: in every turn of the scan loop the cursor does not decrease and stays
\* within the input, the match starts at or after the cursor, and what is
\* left to do (Progress, never negative) falls, so that the loop ends after at
\* most 2 * len(expression) + 1 matches.
C10_ScanProgress ==
    [][pc = "loop" =>
          /\ pc' \in {"loop", "done"}
          /\ last_match_end' >= last_match_end
          /\ last_match_end' <= Len(expression)
          /\ Progress' >= 0
          /\ Len(matches') <= 2 * Len(expression) + 1
          /\ pc' = "loop" =>
                /\ Progress' < Progress
                /\ matches'[Len(matches')].start >= last_match_end
                /\ matches'[Len(matches')].end >= matches'[Len(matches')].start]_vars

\* The for loop runs on by itself: a turn that can be taken is taken
ScanFairSpec == ScanSpec /\ WF_vars(ScanMatch) /\ WF_vars(ScanFinish)

\* C10, termination stated directly (under ScanFairSpec): a scan that has
\* entered its loop returns.
C10_Terminates == (pc = "loop") ~> (pc = "done")

\* C10's case: a scan that ended after an empty match
C10_Witness ==
    /\ pc = "done"
    /\ Len(matches) >= 2
    /\ \E k \in 1..Len(matches) : matches[k].start = matches[k].end

====
